---- MODULE Spec2Model ----
(***************************************************************************)
(* A model of the student-record store of 03-StudentManager.py: the        *)
(* in-memory list self.students, the backing text file, and the handlers   *)
(* that load, add, update, delete, sort and save records.                  *)
(*                                                                         *)
(* Text is modelled character by character: a string is a sequence of      *)
(* one-character strings, a file is the sequence of its lines (without the *)
(* line terminators).  Parsing and formatting are computed as Python       *)
(* computes them (str.strip, str.split, str.isdigit, int, str).            *)
(*                                                                         *)
(* The two other programs of the portfolio are modelled beside it: the     *)
(* quiz of 01-MathsQuiz.py (score, question counter and the callbacks that *)
(* root.after queues) and the joke teller of 02-AlexaTellMeAJoke.py (its   *)
(* labels and flags, and the threads that fade the laugh image in).  Each  *)
(* specification runs one program; the variables of the others stay as    *)
(* they are.                                                               *)
(***************************************************************************)
EXTENDS Integers, Sequences, FiniteSets, TLC

VARIABLES
    students,     \* self.students: sequence of student records
    data_file,    \* self.data_file: TRUE when a path is known, FALSE for None
    file,         \* the lines of the backing file on disk
    window,       \* which window holds the grab: "main", "add" or "update"
    found_index,  \* found_index captured by update_student's form (1-based, 0: none)
    at_open,      \* history: self.students when the open Update form was created
    last,         \* history: the last handler run, its raw input and its outcome
    mutated,      \* history: some Add/Update/Delete/Sort has saved successfully
    io_failures,  \* number of failed writes so far (bounded by MaxIOFailures)
    loaded,       \* history: the collection load_data produced at start-up
    output,       \* self.output_text: what the text area of the main window shows
    \* 01-MathsQuiz.py
    questions,          \* self.questions: difficulty -> ten (text, answer) pairs
    current_difficulty, \* self.current_difficulty
    score,              \* self.score
    current_question,   \* self.current_question (0-based, as in the source)
    correct_answer,     \* self.correct_answer
    screen,             \* the widgets in the root: "menu", "quiz" or "results"
    question_label,     \* text of self.question_label
    feedback_label,     \* text of self.feedback_label
    score_label,        \* the score that self.score_label shows
    result_labels,      \* the final score and the message of the results screen
    after_queue,        \* display_question callbacks queued by root.after
    \* 02-AlexaTellMeAJoke.py
    joke_list,          \* self.joke_list
    punchline_list,     \* self.punchline_list
    current_joke_index, \* self.current_joke_index (0-based, as in the source)
    punchline_shown,    \* self.punchline_shown
    joke_displayed,     \* self.joke_displayed
    joke_label,         \* text of self.joke_label
    punchline_label,    \* text of self.punchline_label
    message_label,      \* text of self.message_label
    laugh_image_label,  \* image of self.laugh_image_label: <<>> or <<alpha>>
    laugh_image,        \* PIL is installed and laugh.png exists (line 168)
    fade_threads,       \* the alpha each running _fade_in_laugh_image sets next
    image_cleared       \* history: Next joke cleared the image, no press since

manager_vars == <<students, data_file, file, window, found_index, at_open,
                  last, mutated, io_failures, loaded, output>>

quiz_vars == <<questions, current_difficulty, score, current_question,
               correct_answer, screen, question_label, feedback_label,
               score_label, result_labels, after_queue>>

joke_vars == <<joke_list, punchline_list, current_joke_index, punchline_shown,
               joke_displayed, joke_label, punchline_label, message_label,
               laugh_image_label, laugh_image, fade_threads, image_cleared>>

\* The variables of the programs other than the student manager.
other_programs == <<quiz_vars, joke_vars>>

vars == <<manager_vars, quiz_vars, joke_vars>>

\* ------------------------------------------------------------------ bounds

\* Add is not offered once the collection holds this many records.
MaxStudents == 3
\* At most this many writes of the file fail in one run.
MaxIOFailures == 1
\* The files of the round-trip specification have at most this many lines.
MaxLines == 2
\* At most this many display_question callbacks wait in the queue of root.after.
MaxTimers == 2
\* At most this many threads fade the laugh image in at the same time.
MaxThreads == 1

\* ------------------------------------------------------- program constants

CourseworkMax == 20
ExamMax == 100
FieldCount == 6

\* -------------------------------------------------------------------- text

Digits == {"0", "1", "2", "3", "4", "5", "6", "7", "8", "9"}
Whitespace == {" "}

DigitValue(c) ==
    CASE c = "0" -> 0 [] c = "1" -> 1 [] c = "2" -> 2 [] c = "3" -> 3
      [] c = "4" -> 4 [] c = "5" -> 5 [] c = "6" -> 6 [] c = "7" -> 7
      [] c = "8" -> 8 [] c = "9" -> 9

DigitChar(d) ==
    CASE d = 0 -> "0" [] d = 1 -> "1" [] d = 2 -> "2" [] d = 3 -> "3"
      [] d = 4 -> "4" [] d = 5 -> "5" [] d = 6 -> "6" [] d = 7 -> "7"
      [] d = 8 -> "8" [] d = 9 -> "9"

\* str.strip(): leading and trailing whitespace removed.
RECURSIVE lstrip(_)
lstrip(s) ==
    IF s # <<>> /\ Head(s) \in Whitespace THEN lstrip(Tail(s)) ELSE s

RECURSIVE rstrip(_)
rstrip(s) ==
    IF s # <<>> /\ s[Len(s)] \in Whitespace
    THEN rstrip(SubSeq(s, 1, Len(s) - 1))
    ELSE s

strip(s) == rstrip(lstrip(s))

\* str.isdigit(): non-empty and every character a digit.
isdigit(s) == s # <<>> /\ \A i \in 1..Len(s) : s[i] \in Digits

\* str.split(sep): the fields between the separators, always at least one.
RECURSIVE split(_, _)
split(s, sep) ==
    IF \E i \in 1..Len(s) : s[i] = sep
    THEN LET i == CHOOSE k \in 1..Len(s) :
                      s[k] = sep /\ \A j \in 1..(k - 1) : s[j] # sep
         IN  <<SubSeq(s, 1, i - 1)>> \o split(SubSeq(s, i + 1, Len(s)), sep)
    ELSE <<s>>

\* int(s) raises ValueError unless s, stripped, is an optional sign and digits.
Unsigned(s) ==
    LET t == strip(s)
    IN  IF t # <<>> /\ Head(t) \in {"-", "+"} THEN Tail(t) ELSE t

ValueError(s) == ~isdigit(Unsigned(s))

RECURSIVE DigitsValue(_)
DigitsValue(s) ==
    IF s = <<>> THEN 0
    ELSE 10 * DigitsValue(SubSeq(s, 1, Len(s) - 1)) + DigitValue(s[Len(s)])

int(s) ==
    LET t == strip(s)
    IN  IF Head(t) = "-" THEN 0 - DigitsValue(Unsigned(s))
        ELSE DigitsValue(Unsigned(s))

\* str(n) of an integer: its decimal digits, "-" first when negative.
RECURSIVE NatStr(_)
NatStr(n) ==
    IF n < 10 THEN <<DigitChar(n)>>
    ELSE NatStr(n \div 10) \o <<DigitChar(n % 10)>>

str(n) == IF n < 0 THEN <<"-">> \o NatStr(0 - n) ELSE NatStr(n)

\* ----------------------------------------------------------------- records

Student(code, name, m1, m2, m3, exam) ==
    [code |-> code, name |-> name, course_marks |-> <<m1, m2, m3>>,
     exam_mark |-> exam]

\* load_data, lines 73-91: the records of the file's lines.
ParseLine(line) ==
    LET data == split(strip(line), ",")
    IN  IF Len(data) = FieldCount
           /\ ~ValueError(data[1]) /\ ~ValueError(data[3])
           /\ ~ValueError(data[4]) /\ ~ValueError(data[5])
           /\ ~ValueError(data[6])
        THEN <<Student(int(data[1]), data[2], int(data[3]), int(data[4]),
                       int(data[5]), int(data[6]))>>
        ELSE <<>>

\* start_index, had line 73 skipped the first line of every file.
start_index_Always(lines) == IF Len(lines) > 0 THEN 1 ELSE 0

\* Line 73: the first line is skipped when it is made of digits.
start_index(lines) ==
    IF Len(lines) > 0 /\ isdigit(strip(lines[1])) THEN 1 ELSE 0

\* ParseLines, had a malformed line ended the loop of line 74.
RECURSIVE ParseLines_Abort(_)
ParseLines_Abort(lines) ==
    IF lines = <<>> \/ ParseLine(Head(lines)) = <<>> THEN <<>>
    ELSE ParseLine(Head(lines)) \o ParseLines_Abort(Tail(lines))

\* Lines 74-91: the loop over the lines, a malformed line adding nothing.
RECURSIVE ParseLines(_)
ParseLines(lines) ==
    IF lines = <<>> THEN <<>>
    ELSE ParseLine(Head(lines)) \o ParseLines(Tail(lines))

load_data(lines) ==
    ParseLines(SubSeq(lines, start_index(lines) + 1, Len(lines)))

\* StudentLine, had line 108 put a space after each comma.
StudentLine_Spaced(student) ==
    str(student.code) \o <<",", " ">> \o student.name \o <<",", " ">>
      \o str(student.course_marks[1]) \o <<",", " ">>
      \o str(student.course_marks[2]) \o <<",", " ">>
      \o str(student.course_marks[3]) \o <<",", " ">>
      \o str(student.exam_mark)

\* save_data, lines 105-108: the lines written for a collection.
StudentLine(student) ==
    str(student.code) \o <<",">> \o student.name \o <<",">>
      \o str(student.course_marks[1]) \o <<",">>
      \o str(student.course_marks[2]) \o <<",">>
      \o str(student.course_marks[3]) \o <<",">>
      \o str(student.exam_mark)

FileLines(studs) ==
    <<str(Len(studs))>> \o [i \in 1..Len(studs) |-> StudentLine(studs[i])]

\* calculate_percentage, had line 119 divided by 100, the exam's maximum.
calculate_percentage_Of100(student) ==
    LET total_coursework == student.course_marks[1] + student.course_marks[2]
                              + student.course_marks[3]
        total_marks == total_coursework + student.exam_mark
    IN  (total_marks * 800) \div 100

\* calculate_percentage, lines 117-119: (total_marks / 160) * 100, held exactly
\* in eighths of a percent (total_marks * 800 / 160 is a whole number).  The
\* float the code computes orders and compares with 40, 50, 60, 70 exactly as
\* this value does for every total the inputs below produce.
calculate_percentage(student) ==
    LET total_coursework == student.course_marks[1] + student.course_marks[2]
                              + student.course_marks[3]
        total_marks == total_coursework + student.exam_mark
    IN  (total_marks * 800) \div 160

\* InsertByKey, had the sort put a record before the records equal to it.
RECURSIVE InsertByKey_Unstable(_, _, _)
InsertByKey_Unstable(sorted, s, reverse) ==
    IF sorted = <<>> THEN <<s>>
    ELSE LET h == Head(sorted)
             after == IF reverse
                      THEN calculate_percentage(h) > calculate_percentage(s)
                      ELSE calculate_percentage(h) < calculate_percentage(s)
         IN  IF after THEN <<h>> \o InsertByKey_Unstable(Tail(sorted), s, reverse)
             ELSE <<s>> \o sorted

\* list.sort(key=..., reverse=...): a stable sort; with reverse the equal
\* elements still keep their original order.
RECURSIVE InsertByKey(_, _, _)
InsertByKey(sorted, s, reverse) ==
    IF sorted = <<>> THEN <<s>>
    ELSE LET h == Head(sorted)
             after == IF reverse
                      THEN calculate_percentage(h) >= calculate_percentage(s)
                      ELSE calculate_percentage(h) <= calculate_percentage(s)
         IN  IF after THEN <<h>> \o InsertByKey(Tail(sorted), s, reverse)
             ELSE <<s>> \o sorted

RECURSIVE SortFrom(_, _, _)
SortFrom(sorted, rest, reverse) ==
    IF rest = <<>> THEN sorted
    ELSE SortFrom(InsertByKey(sorted, Head(rest), reverse), Tail(rest), reverse)

sort(studs, reverse) == SortFrom(<<>>, studs, reverse)

\* -------------------------------------------------------------- display

\* The key of lines 288-289 and 303-304: sum(s['course_marks']) + s['exam_mark'].
total_marks(student) ==
    student.course_marks[1] + student.course_marks[2] + student.course_marks[3]
      + student.exam_mark

\* get_grade, had its comparisons been strict.
get_grade_Strict(percentage) ==
    IF percentage > 70 * 8 THEN "A"
    ELSE IF percentage > 60 * 8 THEN "B"
    ELSE IF percentage > 50 * 8 THEN "C"
    ELSE IF percentage > 40 * 8 THEN "D"
    ELSE "F"

\* get_grade, lines 121-133, on a percentage in eighths of a percent.
get_grade(percentage) ==
    IF percentage >= 70 * 8 THEN "A"
    ELSE IF percentage >= 60 * 8 THEN "B"
    ELSE IF percentage >= 50 * 8 THEN "C"
    ELSE IF percentage >= 40 * 8 THEN "D"
    ELSE "F"

\* display_student_info, lines 213-228: what is shown for one student.
display_student_info(student) ==
    [ name |-> student.name,
      code |-> student.code,
      total_coursework |-> student.course_marks[1] + student.course_marks[2]
                             + student.course_marks[3],
      exam_mark |-> student.exam_mark,
      percentage |-> calculate_percentage(student),
      grade |-> get_grade(calculate_percentage(student)) ]

\* MaxFrom, had max kept the last of the greatest.
RECURSIVE MaxFrom_Last(_, _)
MaxFrom_Last(best, rest) ==
    IF rest = <<>> THEN best
    ELSE MaxFrom_Last(IF total_marks(Head(rest)) >= total_marks(best)
                      THEN Head(rest) ELSE best,
                      Tail(rest))

\* max(self.students, key=...), lines 288-289: the first of the greatest.
RECURSIVE MaxFrom(_, _)
MaxFrom(best, rest) ==
    IF rest = <<>> THEN best
    ELSE MaxFrom(IF total_marks(Head(rest)) > total_marks(best)
                 THEN Head(rest) ELSE best,
                 Tail(rest))

max(studs) == MaxFrom(Head(studs), Tail(studs))

\* min(self.students, key=...), lines 303-304: the first of the least.
RECURSIVE MinFrom(_, _)
MinFrom(best, rest) ==
    IF rest = <<>> THEN best
    ELSE MinFrom(IF total_marks(Head(rest)) < total_marks(best)
                 THEN Head(rest) ELSE best,
                 Tail(rest))

min(studs) == MinFrom(Head(studs), Tail(studs))

\* Line 246: sum(self.calculate_percentage(student) for student in ...).
RECURSIVE total_percentage(_)
total_percentage(studs) ==
    IF studs = <<>> THEN 0
    ELSE calculate_percentage(Head(studs)) + total_percentage(Tail(studs))

\* The text area: which view it holds, the students it shows, the summary
\* of view_all and the note sort_students adds.  The summary keeps the
\* average as the quotient of line 247, total_percentage / len, unrounded:
\* its numerator (eighths of a percent) and its denominator.
Shown(view, infos, summary, note) ==
    [view |-> view, shown |-> infos, summary |-> summary, note |-> note]

\* The empty text area of create_widgets.
Blank == Shown("Blank", <<>>, <<>>, "")

\* Line 247 with a zero len(self.students): the handler ends in
\* ZeroDivisionError after the heading was inserted.
ZeroDivisionError == Shown("ZeroDivisionError", <<>>, <<>>, "")

\* ViewAll, had lines 234-236 been left out.
ViewAll_Unguarded(studs, note) ==
    IF Len(studs) = 0 THEN ZeroDivisionError
    ELSE Shown("AllRecords",
               [i \in 1..Len(studs) |-> display_student_info(studs[i])],
               <<[number |-> Len(studs),
                  average_percentage |-> <<total_percentage(studs), Len(studs)>>]>>,
               note)

\* view_all, lines 230-251, followed by the note of line 335 when
\* sort_students called it.
ViewAll(studs, note) ==
    IF studs = <<>> THEN Shown("NoRecordsFound", <<>>, <<>>, note)
    ELSE IF Len(studs) = 0 THEN ZeroDivisionError
    ELSE Shown("AllRecords",
               [i \in 1..Len(studs) |-> display_student_info(studs[i])],
               <<[number |-> Len(studs),
                  average_percentage |-> <<total_percentage(studs), Len(studs)>>]>>,
               note)

\* The loops of lines 267-271, 436-440 and 468-472: the 1-based index of the
\* first record with the code, 0 when there is none (found_index == -1).
FirstIndex(studs, code) ==
    IF \E i \in 1..Len(studs) : studs[i].code = code
    THEN CHOOSE i \in 1..Len(studs) :
             studs[i].code = code /\ \A j \in 1..(i - 1) : studs[j].code # code
    ELSE 0

\* view_individual, lines 253-279: "No student records available." on an empty
\* collection (255-257), else the first record with the code, or "No student
\* found with code ..." (279).
NoRecords == [code |-> "NoRecords"]

NotFound == [code |-> "NotFound"]

view_individual(studs, code) ==
    IF studs = <<>> THEN NoRecords
    ELSE IF FirstIndex(studs, code) = 0 THEN NotFound
    ELSE studs[FirstIndex(studs, code)]

\* list.pop(i)
RemoveAt(studs, i) == SubSeq(studs, 1, i - 1) \o SubSeq(studs, i + 1, Len(studs))

\* ------------------------------------------------------------------ inputs

\* A line of text from its comma-separated fields.
RECURSIVE CommaLine(_)
CommaLine(fields) ==
    IF Len(fields) = 1 THEN fields[1]
    ELSE fields[1] \o <<",">> \o CommaLine(Tail(fields))

\* The files found at start-up: one without a count line that repeats a code,
\* and one with a count line whose only well-formed line is padded.
FileRepeatedCode ==
    << CommaLine(<< <<"1">>, <<"a">>, <<"1","0">>, <<"1","0">>, <<"1","0">>, <<"5","0">> >>),
       CommaLine(<< <<"1">>, <<"b">>, <<"0">>, <<"0">>, <<"0">>, <<"0">> >>) >>

FileMalformed ==
    << <<"1">>,
       CommaLine(<< <<"x">>, <<"c">>, <<"1">>, <<"1">>, <<"1">>, <<"1">> >>),
       CommaLine(<< <<"3">>, <<"c">>, <<"5">>, <<"5">>, <<"5">> >>),
       CommaLine(<< <<" ","2">>, <<"b">>, <<"2","0">>, <<"2","0">>, <<"2","0">>, <<"1","0","0"," ">> >>) >>

InitFiles == {FileRepeatedCode, FileMalformed}

\* What the user types into a form (lines 374-379, 521-526).
Form(code, name, m1, m2, m3, exam) ==
    [code |-> code, name |-> name, mark1 |-> m1, mark2 |-> m2, mark3 |-> m3,
     exam |-> exam]

NoForm == Form(<<>>, <<>>, <<>>, <<>>, <<>>, <<>>)

\* Three forms that pass every check (marks on both limits, padded text, a
\* comma in the name) ...
ValidForms ==
    { Form(<<"1">>, <<"a">>, <<"1","0">>, <<"1","0">>, <<"1","0">>, <<"5","0">>),
      Form(<<" ","2">>, <<" ","b"," ">>, <<"2","0">>, <<"2","0">>, <<"2","0">>, <<"1","0","0">>),
      Form(<<"3">>, <<"a",",","b">>, <<"0">>, <<"0">>, <<"0">>, <<"0">>) }

\* ... and forms with one fault each: a blank name, a mark beyond a limit, a
\* field that is no integer.
InvalidForms ==
    { Form(<<"1">>, <<" ">>, <<"0">>, <<"0">>, <<"0">>, <<"0">>),
      Form(<<"3">>, <<"c">>, <<"2","1">>, <<"0">>, <<"0">>, <<"0">>),
      Form(<<"3">>, <<"c">>, <<"0">>, <<"-","1">>, <<"0">>, <<"0">>),
      Form(<<"3">>, <<"c">>, <<"0">>, <<"0">>, <<"2","1">>, <<"0">>),
      Form(<<"3">>, <<"c">>, <<"0">>, <<"0">>, <<"0">>, <<"1","0","1">>),
      Form(<<"3">>, <<"c">>, <<"0">>, <<"0">>, <<"0">>, <<"-","1">>),
      Form(<<"3">>, <<"c">>, <<"0">>, <<"x">>, <<"0">>, <<"0">>),
      Form(<<"x">>, <<"c">>, <<"0">>, <<"0">>, <<"0">>, <<>>) }

FormInputs == ValidForms \cup InvalidForms

\* What the user types into the Student Code entry (lines 261, 430, 462).
EntryTexts == { <<"1">>, <<" ","2">>, <<"3">>, <<"9">>, <<"x">> }

\* What the Sort Order dialog returns (line 320): the text, or None on Cancel.
None == <<"None">>
SortOrders == { <<"1">>, <<"2">>, <<>>, None }

\* ----------------------------------------------------------------- writing

\* How one call of save_data ends once the path is known: the file is written
\* ("none"); open(..., 'w') of line 103 raises and the file stays as it was
\* ("open"); or the file was opened, which empties it, and the write raises
\* before a buffered line reached it ("write").
IOOutcomes ==
    {[error |-> "none", written |-> 0]}
      \cup (IF data_file /\ io_failures < MaxIOFailures
            THEN {[error |-> "open", written |-> 0],
                  [error |-> "write", written |-> 0]}
            ELSE {})

\* save_data, lines 96-112: its return value ...
save_data(io) == data_file /\ io.error = "none"

\* The file left behind had line 103 opened it with 'a' in place of 'w'.
FileAfterSave_Append(studs, io) ==
    IF ~data_file \/ io.error = "open" THEN file
    ELSE IF io.error = "none" THEN file \o FileLines(studs)
    ELSE file \o SubSeq(FileLines(studs), 1, io.written)

\* ... and the file it leaves behind.
FileAfterSave(studs, io) ==
    IF ~data_file \/ io.error = "open" THEN file
    ELSE IF io.error = "none" THEN FileLines(studs)
    ELSE SubSeq(FileLines(studs), 1, io.written)

FailuresAfterSave(io) ==
    IF data_file /\ io.error # "none" THEN io_failures + 1 ELSE io_failures

\* ------------------------------------------------------------------- state

\* The quiz is not running: its variables as __init__ of MathQuiz leaves
\* them (lines 48-51), with no questions drawn.
NoQuiz ==
    /\ questions = <<>>
    /\ current_difficulty = ""
    /\ score = 0
    /\ current_question = 0
    /\ correct_answer = 0
    /\ screen = "menu"
    /\ question_label = ""
    /\ feedback_label = ""
    /\ score_label = 0
    /\ result_labels = <<>>
    /\ after_queue = 0

\* The joke teller is not running: no jokes, its labels empty and its flags
\* as __init__ of AlexaJokeApp sets them (lines 48-60), no thread.
NoJokes ==
    /\ joke_list = <<>>
    /\ punchline_list = <<>>
    /\ current_joke_index = 0
    /\ punchline_shown = FALSE
    /\ joke_displayed = FALSE
    /\ joke_label = <<>>
    /\ punchline_label = <<>>
    /\ message_label = ""
    /\ laugh_image_label = <<>>
    /\ laugh_image = FALSE
    /\ fade_threads = <<>>
    /\ image_cleared = FALSE

\* The handler that ran last and how it ended (the message box it showed).
Handled(op, outcome) == [op |-> op, outcome |-> outcome]

\* __init__, lines 24-27, with load_data, lines 55-94: a file is found and
\* read, or none is found and none is selected.
Init ==
    /\ \/ /\ data_file = TRUE
          /\ file \in InitFiles
          /\ students = load_data(file)
       \/ /\ data_file = FALSE
          /\ file = <<>>
          /\ students = <<>>
    /\ loaded = students
    /\ window = "main"
    /\ found_index = 0
    /\ at_open = <<>>
    /\ last = Handled("load_data", "Loaded")
    /\ mutated = FALSE
    /\ io_failures = 0
    /\ output = Blank
    /\ NoQuiz
    /\ NoJokes

\* Validate, had the forms refused a name that holds the field separator.
Validate_NoSeparator(f) ==
    IF \/ ValueError(strip(f.code)) \/ ValueError(f.mark1) \/ ValueError(f.mark2)
       \/ ValueError(f.mark3) \/ ValueError(f.exam)
    THEN "ValueError"
    ELSE IF strip(f.name) = <<>> \/ \E k \in 1..Len(f.name) : f.name[k] = ","
    THEN "NameRequired"
    ELSE IF \/ int(f.mark1) < 0 \/ int(f.mark1) > CourseworkMax
            \/ int(f.mark2) < 0 \/ int(f.mark2) > CourseworkMax
            \/ int(f.mark3) < 0 \/ int(f.mark3) > CourseworkMax
    THEN "CourseworkRange"
    ELSE IF int(f.exam) < 0 \/ int(f.exam) > ExamMax THEN "ExamRange"
    ELSE "Valid"

\* Validate, had lines 390 and 537 tested the lower limit of the exam mark only.
Validate_NoExamLimit(f) ==
    IF \/ ValueError(strip(f.code)) \/ ValueError(f.mark1) \/ ValueError(f.mark2)
       \/ ValueError(f.mark3) \/ ValueError(f.exam)
    THEN "ValueError"
    ELSE IF strip(f.name) = <<>> THEN "NameRequired"
    ELSE IF \/ int(f.mark1) < 0 \/ int(f.mark1) > CourseworkMax
            \/ int(f.mark2) < 0 \/ int(f.mark2) > CourseworkMax
            \/ int(f.mark3) < 0 \/ int(f.mark3) > CourseworkMax
    THEN "CourseworkRange"
    ELSE IF int(f.exam) < 0 THEN "ExamRange"
    ELSE "Valid"

\* The checks of save_student and save_changes before the duplicate check
\* (lines 372-392, 414-415 and 519-539, 561-562): the error shown, or "Valid".
Validate(f) ==
    IF \/ ValueError(strip(f.code)) \/ ValueError(f.mark1) \/ ValueError(f.mark2)
       \/ ValueError(f.mark3) \/ ValueError(f.exam)
    THEN "ValueError"
    ELSE IF strip(f.name) = <<>> THEN "NameRequired"
    ELSE IF \/ int(f.mark1) < 0 \/ int(f.mark1) > CourseworkMax
            \/ int(f.mark2) < 0 \/ int(f.mark2) > CourseworkMax
            \/ int(f.mark3) < 0 \/ int(f.mark3) > CourseworkMax
    THEN "CourseworkRange"
    ELSE IF int(f.exam) < 0 \/ int(f.exam) > ExamMax THEN "ExamRange"
    ELSE "Valid"

\* The record built from a form (lines 400-405, 548-553).
new_student(f) ==
    Student(int(strip(f.code)), strip(f.name), int(f.mark1), int(f.mark2),
            int(f.mark3), int(f.exam))

\* Validate and new_student of every form, and the integer read from every
\* entry text, computed once.
FormRead ==
    [f \in FormInputs |->
        [outcome |-> Validate(f),
         student |-> IF Validate(f) = "Valid" THEN new_student(f)
                     ELSE Student(0, <<>>, 0, 0, 0, 0)]]

EntryRead ==
    [text \in EntryTexts |->
        [error |-> ValueError(text),
         code  |-> IF ValueError(text) THEN 0 ELSE int(text)]]

\* A handler that returns after a message box, before changing anything.
Rejected(op, outcome) ==
    /\ last' = Handled(op, outcome)
    /\ UNCHANGED other_programs
    /\ UNCHANGED <<students, data_file, file, window, found_index, at_open,
                   mutated, io_failures, loaded, output>>

\* Save, had the handler put the old list back when save_data returned False.
Save_Rollback(op, applied, io, note) ==
    /\ students' = IF data_file /\ io.error = "none" THEN applied ELSE students
    /\ file' = FileAfterSave(applied, io)
    /\ io_failures' = FailuresAfterSave(io)
    /\ mutated' = (mutated \/ save_data(io))
    /\ output' = IF save_data(io) THEN ViewAll(applied, note) ELSE output
    /\ last' = Handled(op, IF save_data(io) THEN "Success" ELSE "SaveFailed")

\* The change of self.students followed by the call of save_data (lines
\* 407-409, 446-448, 548-556, 324-332), the message that ends the handler and,
\* when save_data returned True, the refresh by view_all (lines 412, 450, 559,
\* 334-335).
Save(op, applied, io, note) ==
    /\ students' = applied
    /\ file' = FileAfterSave(applied, io)
    /\ io_failures' = FailuresAfterSave(io)
    /\ mutated' = (mutated \/ save_data(io))
    /\ output' = IF save_data(io) THEN ViewAll(applied, note) ELSE output
    /\ last' = Handled(op, IF save_data(io) THEN "Success" ELSE "SaveFailed")

\* MainEnabled, had lines 344 and 485 not called grab_set.
MainEnabled_NoGrab == TRUE

\* The buttons of the main window respond: no form holds the grab that
\* grab_set (lines 344, 485) takes and destroying the form releases.
MainEnabled == window = "main"

\* add_student, lines 337-344: the modal Add form opens.
add_student ==
    /\ MainEnabled
    /\ Len(students) < MaxStudents
    /\ window' = "add"
    /\ last' = Handled("add_student", "FormOpened")
    /\ UNCHANGED other_programs
    /\ UNCHANGED <<students, data_file, file, found_index, at_open, mutated,
                   io_failures, loaded, output>>

\* AddApplied, had line 407 been insert(0, new_student).
AddApplied_Front(f) == <<FormRead[f].student>> \o students

\* Line 407: self.students.append(new_student).
AddApplied(f) == Append(students, FormRead[f].student)

\* CodeTaken, had line 395 compared the newest record only.
CodeTaken_NewestOnly(code) ==
    students # <<>> /\ students[Len(students)].code = code

\* Line 395: any(s['code'] == code for s in self.students).
CodeTaken(code) == \E i \in 1..Len(students) : students[i].code = code

\* save_student, lines 371-415: the Save button of the Add form.
save_student(f) ==
    /\ window = "add"
    /\ IF FormRead[f].outcome # "Valid"
       THEN Rejected("save_student", FormRead[f].outcome)
       ELSE IF CodeTaken(FormRead[f].student.code)
       THEN Rejected("save_student", "DuplicateCode")
       ELSE \E io \in IOOutcomes :
            /\ Save("save_student", AddApplied(f), io, "")
            /\ window' = IF save_data(io) THEN "main" ELSE window
            /\ UNCHANGED other_programs
            /\ UNCHANGED <<data_file, found_index, at_open, loaded>>

\* Closing a form with the window manager's button destroys the Toplevel
\* (lines 340-344, 481-485) and releases its grab.
close_window ==
    /\ window \in {"add", "update"}
    /\ window' = "main"
    /\ found_index' = 0
    /\ at_open' = <<>>
    /\ last' = Handled("close_window", "Closed")
    /\ UNCHANGED other_programs
    /\ UNCHANGED <<students, data_file, file, mutated, io_failures, loaded,
                   output>>

\* DeleteApplied, had the handler dropped every record with the code.
DeleteApplied_AllMatches(text) ==
    SelectSeq(students, LAMBDA r : r.code # EntryRead[text].code)

\* Lines 436-446: the first record with the code is popped.
DeleteApplied(text) ==
    RemoveAt(students, FirstIndex(students, EntryRead[text].code))

\* delete_student, lines 422-452.
delete_student(text, confirm) ==
    /\ MainEnabled
    /\ IF students = <<>>
       THEN Rejected("delete_student", "NoRecords")
       ELSE IF EntryRead[text].error
       THEN Rejected("delete_student", "InvalidInput")
       ELSE IF FirstIndex(students, EntryRead[text].code) = 0
       THEN Rejected("delete_student", "NotFound")
       ELSE IF ~confirm
       THEN Rejected("delete_student", "Cancelled")
       ELSE \E io \in IOOutcomes :
            /\ Save("delete_student", DeleteApplied(text), io, "")
            /\ UNCHANGED other_programs
            /\ UNCHANGED <<data_file, window, found_index, at_open, loaded>>

\* update_student, lines 454-485: the lookup, then the modal Update form.
update_student(text) ==
    /\ MainEnabled
    /\ IF students = <<>>
       THEN Rejected("update_student", "NoRecords")
       ELSE IF EntryRead[text].error
       THEN Rejected("update_student", "InvalidInput")
       ELSE IF FirstIndex(students, EntryRead[text].code) = 0
       THEN Rejected("update_student", "NotFound")
       ELSE /\ window' = "update"
            /\ found_index' = FirstIndex(students, EntryRead[text].code)
            /\ at_open' = students
            /\ last' = Handled("update_student", "FormOpened")
            /\ UNCHANGED other_programs
            /\ UNCHANGED <<students, data_file, file, mutated, io_failures,
                           loaded, output>>

\* save_changes, lines 518-562: the Save Changes button of the Update form.
\* Line 543: any(s['code'] == new_code and i != found_index ...).
CodeExists(new_code) ==
    \E i \in 1..Len(students) : students[i].code = new_code /\ i # found_index

\* UpdateApplied, had lines 548-553 removed the record and appended the new one.
UpdateApplied_Reappend(f) ==
    Append(RemoveAt(students, found_index), FormRead[f].student)

UpdateApplied(f) == [students EXCEPT ![found_index] = FormRead[f].student]

save_changes(f) ==
    /\ window = "update"
    /\ IF FormRead[f].outcome # "Valid"
       THEN Rejected("save_changes", FormRead[f].outcome)
       ELSE IF CodeExists(FormRead[f].student.code)
       THEN Rejected("save_changes", "DuplicateCode")
       ELSE \E io \in IOOutcomes :
            /\ Save("save_changes", UpdateApplied(f), io, "")
            /\ window' = IF save_data(io) THEN "main" ELSE window
            /\ found_index' = IF save_data(io) THEN 0 ELSE found_index
            /\ at_open' = IF save_data(io) THEN <<>> ELSE at_open
            /\ UNCHANGED other_programs
            /\ UNCHANGED <<data_file, loaded>>

\* SortApplied, had a cancelled dialog returned before sorting.
SortApplied_CancelKeeps(order) ==
    IF order = None THEN students ELSE sort(students, order # <<"1">>)

\* SortApplied, had line 328 not passed reverse=True.
SortApplied_Ascending(order) == sort(students, FALSE)

\* Lines 324-329: ascending for "1", descending for every other answer.
SortApplied(order) == sort(students, order # <<"1">>)

order_text(order) == IF order = <<"1">> THEN "ascending" ELSE "descending"

\* sort_students, lines 313-335.

sort_students(order) ==
    /\ MainEnabled
    /\ IF students = <<>>
       THEN Rejected("sort_students", "NoRecords")
       ELSE \E io \in IOOutcomes :
            /\ Save("sort_students", SortApplied(order), io, order_text(order))
            /\ UNCHANGED other_programs
            /\ UNCHANGED <<data_file, window, found_index, at_open, loaded>>

\* The View All Student Records button: view_all, lines 230-251.
view_all ==
    /\ MainEnabled
    /\ output' = ViewAll(students, "")
    /\ last' = Handled("view_all", "Shown")
    /\ UNCHANGED other_programs
    /\ UNCHANGED <<students, data_file, file, window, found_index, at_open,
                   mutated, io_failures, loaded>>

\* One student in the text area (lines 274-277, 291-294, 306-309).
ShowOne(op, view, student) ==
    /\ output' = Shown(view, <<display_student_info(student)>>, <<>>, "")
    /\ last' = Handled(op, "Shown")
    /\ UNCHANGED other_programs
    /\ UNCHANGED <<students, data_file, file, window, found_index, at_open,
                   mutated, io_failures, loaded>>

\* The View Individual Student Record button: view_individual, lines 253-279.
ViewIndividual(text) ==
    /\ MainEnabled
    /\ IF students = <<>>
       THEN Rejected("view_individual", "NoRecords")
       ELSE IF EntryRead[text].error
       THEN Rejected("view_individual", "InvalidInput")
       ELSE IF view_individual(students, EntryRead[text].code) = NotFound
       THEN Rejected("view_individual", "NotFound")
       ELSE ShowOne("view_individual", "IndividualRecord",
                    view_individual(students, EntryRead[text].code))

\* show_highest, lines 281-294.
show_highest ==
    /\ MainEnabled
    /\ IF students = <<>>
       THEN Rejected("show_highest", "NoRecords")
       ELSE ShowOne("show_highest", "HighestScore", max(students))

\* show_lowest, lines 296-309.
show_lowest ==
    /\ MainEnabled
    /\ IF students = <<>>
       THEN Rejected("show_lowest", "NoRecords")
       ELSE ShowOne("show_lowest", "LowestScore", min(students))

\* The handlers that change self.students or the file, from start-up on.  The
\* handlers that only show records are run under SpecRecords.
Next ==
    \/ add_student
    \/ \E f \in FormInputs : save_student(f)
    \/ close_window
    \/ \E text \in EntryTexts : \E confirm \in BOOLEAN :
           delete_student(text, confirm)
    \/ \E text \in EntryTexts : update_student(text)
    \/ \E f \in FormInputs : save_changes(f)
    \/ \E order \in SortOrders : sort_students(order)

Spec == Init /\ [][Next]_vars

\* -------------------------------------------------------------- round trip

\* Lines a data file may hold: a count, a count with padding, a count with a
\* sign, a record, a record with padded fields, signs and leading zeros, a
\* record without a name, lines with five and with seven fields, a line with
\* a field that is no integer, and a blank line.
SampleLines ==
    { <<"2">>,
      <<" ", "1", "2", " ">>,
      <<"+", "3">>,
      CommaLine(<< <<"1">>, <<"a">>, <<"1","0">>, <<"1","0">>, <<"1","0">>, <<"5","0">> >>),
      CommaLine(<< <<" ","+","7"," ">>, <<" ","b"," ">>, <<"0","5">>, <<"-","0">>,
                   <<" ","3">>, <<"1","0","0"," ">> >>),
      CommaLine(<< <<"4">>, <<>>, <<"0">>, <<"0">>, <<"0">>, <<"0">> >>),
      CommaLine(<< <<"5">>, <<"e">>, <<"2","1">>, <<"0">>, <<"0">>,
                   <<"1","0","1">> >>),
      CommaLine(<< <<"3">>, <<"c">>, <<"5">>, <<"5">>, <<"5">> >>),
      CommaLine(<< <<"1">>, <<"a">>, <<"b">>, <<"1">>, <<"1">>, <<"1">>, <<"1">> >>),
      CommaLine(<< <<"x">>, <<"c">>, <<"1">>, <<"1">>, <<"1">>, <<"1">> >>),
      <<>> }

RECURSIVE FilesOfLength(_)
FilesOfLength(n) ==
    IF n = 0 THEN {<<>>}
    ELSE {Append(f, l) : f \in FilesOfLength(n - 1), l \in SampleLines}

SampleFiles == UNION {FilesOfLength(n) : n \in 0..MaxLines}

\* The program is started on a file, a save rewrites the file, and the
\* program is started again (__init__, lines 24-27, and save_data).
RoundTripInit ==
    /\ file \in SampleFiles
    /\ data_file = TRUE
    /\ students = <<>>
    /\ loaded = <<>>
    /\ window = "main"
    /\ found_index = 0
    /\ at_open = <<>>
    /\ last = Handled("__init__", "Started")
    /\ mutated = FALSE
    /\ io_failures = 0
    /\ output = Blank
    /\ NoQuiz
    /\ NoJokes

Load ==
    /\ last.outcome = "Started"
    /\ students' = load_data(file)
    /\ loaded' = students'
    /\ last' = Handled("load_data", "Loaded")
    /\ UNCHANGED other_programs
    /\ UNCHANGED <<data_file, file, window, found_index, at_open, mutated,
                   io_failures, output>>

Persist ==
    /\ last.outcome = "Loaded"
    /\ file' = FileAfterSave(students, [error |-> "none", written |-> 0])
    /\ last' = Handled("save_data", "Success")
    /\ UNCHANGED other_programs
    /\ UNCHANGED <<students, data_file, window, found_index, at_open, mutated,
                   io_failures, loaded, output>>

Reload ==
    /\ last.outcome = "Success"
    /\ students' = load_data(file)
    /\ last' = Handled("load_data", "Reloaded")
    /\ UNCHANGED other_programs
    /\ UNCHANGED <<data_file, file, window, found_index, at_open, mutated,
                   io_failures, loaded, output>>

RoundTripNext == Load \/ Persist \/ Reload

SpecRoundTrip == RoundTripInit /\ [][RoundTripNext]_vars

\* ---------------------------------------------------------------- records

\* Records a data file may hold: two with the same total and different
\* marks, and one with a lower total and the code of the first.
SampleRecords ==
    { Student(1, <<"a">>, 10, 10, 10, 50),
      Student(2, <<"b">>, 20, 20, 20, 20),
      Student(1, <<"c">>, 0, 0, 0, 0) }

RECURSIVE CollectionsOfLength(_)
CollectionsOfLength(n) ==
    IF n = 0 THEN {<<>>}
    ELSE {Append(c, r) : c \in CollectionsOfLength(n - 1), r \in SampleRecords}

SampleCollections == UNION {CollectionsOfLength(n) : n \in 0..MaxStudents}

\* The program started on a file holding a sample collection (__init__,
\* lines 24-27); the writes that follow succeed.
RecordsInit ==
    /\ students \in SampleCollections
    /\ data_file = TRUE
    /\ file = FileLines(students)
    /\ loaded = students
    /\ window = "main"
    /\ found_index = 0
    /\ at_open = <<>>
    /\ last = Handled("load_data", "Loaded")
    /\ mutated = FALSE
    /\ io_failures = MaxIOFailures
    /\ output = Blank
    /\ NoQuiz
    /\ NoJokes

\* The buttons that show records, with Delete and Sort (create_widgets).
RecordsNext ==
    \/ view_all
    \/ \E text \in EntryTexts : ViewIndividual(text)
    \/ show_highest
    \/ show_lowest
    \/ \E text \in EntryTexts : \E confirm \in BOOLEAN :
           delete_student(text, confirm)
    \/ \E order \in SortOrders : sort_students(order)

SpecRecords == RecordsInit /\ [][RecordsNext]_vars

\* ------------------------------------------------------------------ marks

\* Marks a record may hold: every first coursework mark and every exam mark
\* from one below the least to one above the greatest allowed, the other two
\* coursework marks at their limits; and the marks 18, 17, 19 with exam 82.
SampleMarks ==
    { <<m1, m2, m3, exam>> : m1 \in -1..(CourseworkMax + 1),
                             m2 \in {0, CourseworkMax},
                             m3 \in {0, CourseworkMax},
                             exam \in -1..(ExamMax + 1) }
      \cup { <<18, 17, 19, 82>> }

\* The program started on a file holding one record (__init__, lines 24-27).
MarksInit ==
    /\ \E m \in SampleMarks :
           students = <<Student(1, <<"a">>, m[1], m[2], m[3], m[4])>>
    /\ data_file = TRUE
    /\ file = FileLines(students)
    /\ loaded = students
    /\ window = "main"
    /\ found_index = 0
    /\ at_open = <<>>
    /\ last = Handled("load_data", "Loaded")
    /\ mutated = FALSE
    /\ io_failures = 0
    /\ output = Blank
    /\ NoQuiz
    /\ NoJokes

\* The record is displayed with its percentage and grade.
MarksNext == view_all

SpecMarks == MarksInit /\ [][MarksNext]_vars

\* The student manager is not running: no records, no file, an empty text
\* area (StudentManager.__init__, lines 18-28, before load_data).
NoManager ==
    /\ students = <<>> /\ data_file = FALSE /\ file = <<>> /\ window = "main"
    /\ found_index = 0 /\ at_open = <<>> /\ mutated = FALSE
    /\ io_failures = 0 /\ loaded = <<>> /\ output = Blank
    /\ last = Handled("__init__", "Started")

\* ------------------------------------------------- the quiz, 01-MathsQuiz.py

\* self.total_questions, line 50.
total_questions == 10

Difficulties == {"Easy", "Moderate", "Advanced"}

\* One (question_text, answer) pair of lines 60-71.
Question(text, answer) == [text |-> text, answer |-> answer]

\* Two questions of each difficulty, a sum and a difference, as lines 60-71
\* build them from numbers in the difficulty's range.
Sums ==
    [d \in Difficulties |->
        CASE d = "Easy"     -> Question("3 + 4", 7)
          [] d = "Moderate" -> Question("13 + 14", 27)
          [] d = "Advanced" -> Question("1003 + 1004", 2007)]

Differences ==
    [d \in Difficulties |->
        CASE d = "Easy"     -> Question("4 - 7", -3)
          [] d = "Moderate" -> Question("14 - 17", -3)
          [] d = "Advanced" -> Question("1004 - 1007", -3)]

\* The tables random can draw are sampled by two: ten sums, and sums and
\* differences in turn.
QuestionTables ==
    { [d \in Difficulties |-> [i \in 1..total_questions |-> Sums[d]]],
      [d \in Difficulties |->
          [i \in 1..total_questions |->
              IF i % 2 = 1 THEN Sums[d] ELSE Differences[d]]] }

\* What the entry holds when Submit or Enter is pressed (line 219).
AnswerTexts ==
    { <<"7">>, <<" ","7"," ">>, <<"2","7">>, <<"2","0","0","7">>, <<"-","3">>,
      <<"x">>, <<>> }

\* The integer of every answer text, computed once.
AnswerRead ==
    [text \in AnswerTexts |->
        [error |-> ValueError(text),
         value |-> IF ValueError(text) THEN 0 ELSE int(text)]]

\* The message of lines 253-264 for percentage = score / 10 * 100.
performance(points) ==
    IF points * 100 = 100 * total_questions THEN "Perfect! Woohoo"
    ELSE IF points * 100 >= 80 * total_questions THEN "Almost there!"
    ELSE IF points * 100 >= 60 * total_questions
    THEN "Try again! You can do better!"
    ELSE "Nice try! Keep practicing!"

\* MathQuiz.__init__, lines 25-73: the questions are drawn and the menu shown.
QuizInit ==
    /\ questions \in QuestionTables
    /\ current_difficulty = ""
    /\ score = 0
    /\ current_question = 0
    /\ correct_answer = 0
    /\ screen = "menu"
    /\ question_label = ""
    /\ feedback_label = ""
    /\ score_label = 0
    /\ result_labels = <<>>
    /\ after_queue = 0
    /\ NoManager
    /\ NoJokes

\* show_main_menu, lines 135-157, from the Main Menu button of the results.
show_main_menu ==
    /\ screen = "results"
    /\ screen' = "menu"
    /\ result_labels' = <<>>
    /\ UNCHANGED <<questions, current_difficulty, score, current_question,
                   correct_answer, question_label, feedback_label, score_label,
                   after_queue>>
    /\ UNCHANGED <<manager_vars, joke_vars>>

\* start_quiz, lines 169-204, from a difficulty button of the menu or from
\* Play Again on the results; it ends by displaying the first question
\* (display_question, lines 207-214, with current_question = 0).
start_quiz(difficulty) ==
    /\ \/ screen = "menu"
       \/ screen = "results" /\ difficulty = current_difficulty
    /\ current_difficulty' = difficulty
    /\ score' = 0
    /\ current_question' = 0
    /\ screen' = "quiz"
    /\ result_labels' = <<>>
    /\ score_label' = 0
    /\ question_label' = questions[difficulty][1].text
    /\ correct_answer' = questions[difficulty][1].answer
    /\ feedback_label' = ""
    /\ UNCHANGED <<questions, after_queue>>
    /\ UNCHANGED <<manager_vars, joke_vars>>

\* The Submit button and the Enter binding of the entry exist (lines 185-202):
\* nothing disables them between an answer and the next question.
SubmitEnabled == screen = "quiz"

\* check_answer, lines 218-237.
check_answer(text) ==
    /\ SubmitEnabled
    /\ IF AnswerRead[text].error
       THEN /\ feedback_label' = "Please enter a valid number."
            /\ UNCHANGED <<score, current_question, score_label, after_queue>>
       ELSE /\ after_queue < MaxTimers
            /\ score' = IF AnswerRead[text].value = correct_answer
                        THEN score + 1 ELSE score
            /\ feedback_label' = IF AnswerRead[text].value = correct_answer
                                 THEN "Correct!" ELSE "Wrong!"
            /\ score_label' = score'
            /\ current_question' = current_question + 1
            /\ after_queue' = after_queue + 1
    /\ UNCHANGED <<questions, current_difficulty, correct_answer, screen,
                   question_label, result_labels>>
    /\ UNCHANGED <<manager_vars, joke_vars>>

\* display_question, lines 206-216, run by the main loop 200 ms after an
\* answer (line 237); past the last question it is show_results, lines
\* 239-282.  On a screen without the quiz widgets line 209 raises and the
\* callback ends.
display_question ==
    /\ after_queue > 0
    /\ after_queue' = after_queue - 1
    /\ IF current_question < total_questions
       THEN IF screen = "quiz"
            THEN /\ question_label' =
                        questions[current_difficulty][current_question + 1].text
                 /\ correct_answer' =
                        questions[current_difficulty][current_question + 1].answer
                 /\ feedback_label' = ""
                 /\ UNCHANGED <<screen, result_labels>>
            ELSE /\ correct_answer' =
                        questions[current_difficulty][current_question + 1].answer
                 /\ UNCHANGED <<question_label, feedback_label, screen,
                                result_labels>>
       ELSE /\ screen' = "results"
            /\ result_labels' = <<score, performance(score)>>
            /\ UNCHANGED <<question_label, feedback_label, correct_answer>>
    /\ UNCHANGED <<questions, current_difficulty, score, current_question,
                   score_label>>
    /\ UNCHANGED <<manager_vars, joke_vars>>

QuizNext ==
    \/ \E difficulty \in Difficulties : start_quiz(difficulty)
    \/ \E text \in AnswerTexts : check_answer(text)
    \/ display_question
    \/ show_main_menu

SpecQuiz == QuizInit /\ [][QuizNext]_vars

\* ---------------------------------- the joke teller, 02-AlexaTellMeAJoke.py

\* The text used when randomJokes.txt is missing (line 113).
FallbackLine ==
    << "W", "h", "y", " ", "d", "i", "d", " ", "t", "h", "e", " ", "c",
       "h", "i", "c", "k", "e", "n", " ", "c", "r", "o", "s", "s", " ",
       "t", "h", "e", " ", "r", "o", "a", "d", "?", "T", "o", " ", "g",
       "e", "t", " ", "t", "o", " ", "t", "h", "e", " ", "o", "t", "h",
       "e", "r", " ", "s", "i", "d", "e" >>

\* The text display_joke shows when there is no joke (line 133).
NoJokesAvailable ==
    << "(", "N", "o", " ", "j", "o", "k", "e", "s", " ", "a", "v", "a",
       "i", "l", "a", "b", "l", "e", ")" >>

\* The message show_punchline leaves under the buttons (line 159).
PressNext == "Press 'Next joke' to continue the silliness!"

\* What alpha takes in range(0, 256, 15), line 198.
AlphaStep == 15
AlphaStop == 256

\* The lines of randomJokes.txt (txt_content.splitlines(), line 115), or
\* Missing when neither path exists: well-formed lines, a second question
\* mark, padding, a line without a question mark, an empty punchline.
Missing == <<"FileNotFoundError">>

SampleJokeFiles ==
    { Missing,
      <<>>,
      << <<"n", "o">>, <<" ">> >>,
      << <<"A", "?", "b">> >>,
      << <<" ", "A", "?", "b", "?", "c", " ">>, <<>>, <<"n", "o">>,
         <<"D", "?">>, <<"E", "?", "f">> >> }

\* The place of the first question mark of a line, 0 when it has none.
QuestionMark(line) ==
    IF \E i \in 1..Len(line) : line[i] = "?"
    THEN CHOOSE i \in 1..Len(line) :
             line[i] = "?" /\ \A j \in 1..(i - 1) : line[j] # "?"
    ELSE 0

\* Lines 121-123 for a stripped line with a question mark:
\* line.split('?', 1), the joke with its question mark put back.
JokeOfLine(line) ==
    LET l == strip(line)
        q == QuestionMark(l)
    IN  [joke |-> SubSeq(l, 1, q), punchline |-> SubSeq(l, q + 1, Len(l))]

\* The loop of lines 115-126: empty lines and lines without a question mark
\* are skipped.
RECURSIVE JokesOfLines(_)
JokesOfLines(lines) ==
    IF lines = <<>> THEN <<>>
    ELSE IF QuestionMark(strip(Head(lines))) = 0
    THEN JokesOfLines(Tail(lines))
    ELSE <<JokeOfLine(Head(lines))>> \o JokesOfLines(Tail(lines))

\* _load_jokes, lines 90-128.
_load_jokes(content) ==
    LET lines == IF content = Missing THEN <<FallbackLine>> ELSE content
        found == JokesOfLines(lines)
    IN  [joke_list |-> [i \in 1..Len(found) |-> found[i].joke],
         punchline_list |-> [i \in 1..Len(found) |-> found[i].punchline]]

\* random.randint(low, high) of lines 48 and 223.
randint(low, high) == low..high

\* max(len(self.joke_list) - 1, 0), line 48.
LastIndex(list) == IF Len(list) - 1 > 0 THEN Len(list) - 1 ELSE 0

\* AlexaJokeApp.__init__, lines 31-88.
JokesInit ==
    /\ \E content \in SampleJokeFiles :
           /\ joke_list = _load_jokes(content).joke_list
           /\ punchline_list = _load_jokes(content).punchline_list
    /\ current_joke_index \in randint(0, LastIndex(joke_list))
    /\ punchline_shown = FALSE
    /\ joke_displayed = FALSE
    /\ joke_label = <<>>
    /\ punchline_label = <<>>
    /\ message_label = ""
    /\ laugh_image_label = <<>>
    /\ laugh_image \in BOOLEAN
    /\ fade_threads = <<>>
    /\ image_cleared = FALSE
    /\ NoManager
    /\ NoQuiz

\* display_joke, lines 130-143.
display_joke ==
    /\ IF joke_list = <<>>
       THEN /\ joke_label' = NoJokesAvailable
            /\ UNCHANGED <<joke_displayed, punchline_shown, message_label>>
       ELSE /\ joke_label' = joke_list[current_joke_index + 1]
            /\ joke_displayed' = TRUE
            /\ punchline_shown' = FALSE
            /\ message_label' = ""
    /\ UNCHANGED <<joke_list, punchline_list, current_joke_index,
                   punchline_label, laugh_image_label, laugh_image,
                   fade_threads, image_cleared>>
    /\ UNCHANGED <<manager_vars, quiz_vars>>

\* show_punchline, had line 149 not tested joke_displayed.
PunchlineAllowed_Always == TRUE

\* The guard of lines 149-150.
PunchlineAllowed == joke_displayed

\* show_punchline, lines 145-169.  The thread that plays the sound (lines
\* 163-164, 171-183) touches only the mixer of pygame and is left out; the
\* thread of line 169 starts before its first frame.
show_punchline ==
    /\ image_cleared' = FALSE
    /\ IF ~PunchlineAllowed
       THEN UNCHANGED <<punchline_label, punchline_shown, message_label,
                        fade_threads>>
       ELSE IF punchline_list = <<>>
       THEN /\ punchline_label' = <<>>
            /\ UNCHANGED <<punchline_shown, message_label, fade_threads>>
       ELSE /\ laugh_image => Len(fade_threads) < MaxThreads
            /\ punchline_label' = punchline_list[current_joke_index + 1]
            /\ punchline_shown' = TRUE
            /\ message_label' = PressNext
            /\ fade_threads' = IF laugh_image THEN Append(fade_threads, 0)
                               ELSE fade_threads
    /\ UNCHANGED <<joke_list, punchline_list, current_joke_index,
                   joke_displayed, joke_label, laugh_image_label, laugh_image>>
    /\ UNCHANGED <<manager_vars, quiz_vars>>

\* The threads without thread t.
Ended(t) ==
    SubSeq(fade_threads, 1, t - 1) \o SubSeq(fade_threads, t + 1,
                                             Len(fade_threads))

\* One turn of the loop of _fade_in_laugh_image, lines 198-213, in thread t:
\* the label gets the image with the next alpha.
fade_frame(t) ==
    /\ t \in 1..Len(fade_threads)
    /\ laugh_image_label' = <<fade_threads[t]>>
    /\ fade_threads' =
           IF fade_threads[t] + AlphaStep < AlphaStop
           THEN [fade_threads EXCEPT ![t] = fade_threads[t] + AlphaStep]
           ELSE Ended(t)
    /\ UNCHANGED <<joke_list, punchline_list, current_joke_index,
                   punchline_shown, joke_displayed, joke_label, punchline_label,
                   message_label, laugh_image, image_cleared>>
    /\ UNCHANGED <<manager_vars, quiz_vars>>

\* A call of thread t raises (the image cannot be opened, or Tk refuses the
\* call from the thread): lines 214-216 print the error and the thread ends.
fade_raises(t) ==
    /\ t \in 1..Len(fade_threads)
    /\ fade_threads' = Ended(t)
    /\ UNCHANGED <<joke_list, punchline_list, current_joke_index,
                   punchline_shown, joke_displayed, joke_label, punchline_label,
                   message_label, laugh_image_label, laugh_image,
                   image_cleared>>
    /\ UNCHANGED <<manager_vars, quiz_vars>>

\* next_joke, lines 218-235.
next_joke ==
    /\ IF joke_list = <<>>
       THEN UNCHANGED <<current_joke_index, joke_label, punchline_label,
                        laugh_image_label, joke_displayed, punchline_shown,
                        message_label, image_cleared>>
       ELSE /\ current_joke_index' \in randint(0, Len(joke_list) - 1)
            /\ joke_label' = <<>>
            /\ punchline_label' = <<>>
            /\ laugh_image_label' = <<>>
            /\ joke_displayed' = FALSE
            /\ punchline_shown' = FALSE
            /\ message_label' = ""
            /\ image_cleared' = TRUE
    /\ UNCHANGED <<joke_list, punchline_list, laugh_image, fade_threads>>
    /\ UNCHANGED <<manager_vars, quiz_vars>>

JokesNext ==
    \/ display_joke
    \/ show_punchline
    \/ next_joke
    \/ \E t \in 1..MaxThreads : fade_frame(t)
    \/ \E t \in 1..MaxThreads : fade_raises(t)

SpecJokes == JokesInit /\ [][JokesNext]_vars

\* ------------------------------------------------------------------ claims

UniqueCodes(studs) ==
    \A i, j \in 1..Len(studs) : i # j => studs[i].code # studs[j].code

\* C1: once a mutation has succeeded, no two records of the collection have
\* the same code, whatever file was loaded.
C1_CodesUniqueAfterMutation == mutated => UniqueCodes(students)

\* The line the file holds for a record: its six fields in order, joined by
\* commas, the numbers in decimal.
RecordLine(r) ==
    CommaLine(<< str(r.code), r.name, str(r.course_marks[1]),
                 str(r.course_marks[2]), str(r.course_marks[3]),
                 str(r.exam_mark) >>)

\* C2: right after an Add, Update, Delete or Sort whose save succeeded, the
\* file is the decimal record count followed by one line per record of the
\* collection, in order, and nothing of the old file.
C2_FileIsCollection ==
    last.outcome = "Success" =>
        /\ Len(file) = Len(students) + 1
        /\ isdigit(file[1]) /\ int(file[1]) = Len(students)
        /\ \A i \in 1..Len(students) : file[i + 1] = RecordLine(students[i])

C2_Witness ==
    /\ last = Handled("sort_students", "Success")
    /\ Len(students) >= 2
    /\ loaded = load_data(FileRepeatedCode)

\* What the claims say of a form, read from its text.
IsInteger(s) == ~ValueError(s)

InRange(s, lo, hi) == IsInteger(s) /\ int(s) >= lo /\ int(s) <= hi

FieldsValid(f) ==
    /\ IsInteger(f.code)
    /\ strip(f.name) # <<>>
    /\ InRange(f.mark1, 0, 20) /\ InRange(f.mark2, 0, 20) /\ InRange(f.mark3, 0, 20)
    /\ InRange(f.exam, 0, 100)

FormRecord(f) ==
    [code |-> int(f.code), name |-> strip(f.name),
     course_marks |-> <<int(f.mark1), int(f.mark2), int(f.mark3)>>,
     exam_mark |-> int(f.exam)]

\* The records of a collection other than the one at index i.
Others(studs, i) ==
    [k \in 1..(Len(studs) - 1) |-> IF k < i THEN studs[k] ELSE studs[k + 1]]

\* The forms with valid fields and the entry texts that are integers, with the
\* record and the code each stands for.
AcceptableForms == {f \in FormInputs : FieldsValid(f)}

RecordOf == [f \in AcceptableForms |-> FormRecord(f)]

IntegerTexts == {text \in EntryTexts : IsInteger(text)}

CodeOf == [text \in IntegerTexts |-> int(text)]

CodePresent(studs, code) == \E i \in 1..Len(studs) : studs[i].code = code

ValidationErrors == {"ValueError", "NameRequired", "CourseworkRange", "ExamRange"}

\* A step in which save_data was called and did not succeed: no path is
\* known, or a write failed.
PersistFails == ~data_file \/ io_failures' > io_failures

Ordered(studs, reverse) ==
    \A i \in 1..(Len(studs) - 1) :
        IF reverse
        THEN calculate_percentage(studs[i]) >= calculate_percentage(studs[i + 1])
        ELSE calculate_percentage(studs[i]) <= calculate_percentage(studs[i + 1])

Occurrences(studs, r) == Cardinality({i \in 1..Len(studs) : studs[i] = r})

SameRecords(a, b) ==
    /\ Len(a) = Len(b)
    /\ \A i \in 1..Len(a) : Occurrences(a, a[i]) = Occurrences(b, a[i])

\* The collection without its first record with the code.
WithoutFirst(studs, code) ==
    LET i == CHOOSE k \in 1..Len(studs) :
                 studs[k].code = code /\ \A j \in 1..(k - 1) : studs[j].code # code
    IN  [k \in 1..(Len(studs) - 1) |-> IF k < i THEN studs[k] ELSE studs[k + 1]]

\* C3: when the save fails (a write error, or no path is known) the Add,
\* Update, Delete or Sort that called it stays applied to the collection, the
\* handler reports no success (the form stays open), and the file is not
\* brought in line with the collection.
C3_NoRollback ==
    [][ PersistFails =>
        /\ \A f \in AcceptableForms :
              (save_student(f) /\ ~CodePresent(students, RecordOf[f].code))
              => /\ students' = Append(students, RecordOf[f])
                 /\ last'.outcome = "SaveFailed"
                 /\ window' = "add" /\ mutated' = mutated
        /\ \A f \in AcceptableForms :
              (save_changes(f) /\ ~CodePresent(Others(students, found_index),
                                                 RecordOf[f].code))
              => /\ students' = [students EXCEPT ![found_index] = RecordOf[f]]
                 /\ last'.outcome = "SaveFailed"
                 /\ window' = "update" /\ mutated' = mutated
        /\ \A text \in IntegerTexts :
              (delete_student(text, TRUE) /\ CodePresent(students, CodeOf[text]))
              => /\ students' = WithoutFirst(students, CodeOf[text])
                 /\ last'.outcome = "SaveFailed" /\ mutated' = mutated
        /\ \A order \in SortOrders :
              (sort_students(order) /\ students # <<>>)
              => /\ SameRecords(students', students)
                 /\ Ordered(students', order # <<"1">>)
                 /\ last'.outcome = "SaveFailed" /\ mutated' = mutated
      ]_vars

C3_Witness ==
    /\ last = Handled("delete_student", "SaveFailed")
    /\ io_failures > 0
    /\ load_data(file) # students

\* C5: an Add with valid fields and a code that is not present appends the
\* record at the end, leaves the records before it as they were, makes the
\* collection one longer, and a lookup of the code then returns the record.
C5_AddAppends ==
    [][ \A f \in AcceptableForms :
            (save_student(f) /\ ~CodePresent(students, RecordOf[f].code))
            => /\ students' = Append(students, RecordOf[f])
               /\ Len(students') = Len(students) + 1
               /\ SubSeq(students', 1, Len(students)) = students
               /\ view_individual(students', RecordOf[f].code) = RecordOf[f]
      ]_vars

C5_Witness ==
    /\ last = Handled("save_student", "Success")
    /\ Len(students) >= 2
    /\ students[Len(students)].name = <<"a", ",", "b">>

\* C6, as claimed: an Add whose code equals the code of a record of the
\* collection fails with DuplicateCode and leaves the collection and the file
\* unchanged.
IntegerCodeForms == {f \in FormInputs : IsInteger(f.code)}

FormCode == [f \in IntegerCodeForms |-> int(f.code)]

C6_DuplicateAddReportsDuplicate ==
    [][ \A f \in IntegerCodeForms :
            (save_student(f) /\ CodePresent(students, FormCode[f]))
            => /\ last'.outcome = "DuplicateCode"
               /\ students' = students /\ file' = file
      ]_vars

\* C6, amended: an Add whose code equals the code of a record of the
\* collection leaves the collection and the file unchanged and save_data is
\* not called; it fails with DuplicateCode when its other fields are valid and
\* with the error of the failing field check when they are not.
C6_DuplicateAddChangesNothing ==
    [][ \A f \in IntegerCodeForms :
            (save_student(f) /\ CodePresent(students, FormCode[f]))
            => /\ students' = students /\ file' = file
               /\ io_failures' = io_failures /\ window' = "add"
               /\ IF f \in AcceptableForms
                  THEN last'.outcome = "DuplicateCode"
                  ELSE last'.outcome \in ValidationErrors
      ]_vars

C6_Witness ==
    /\ last = Handled("save_student", "DuplicateCode")
    /\ Len(students) >= 2
    /\ students[1].code = 1

\* A record as Add and Update may write it.
RecordValid(r) ==
    /\ r.name # <<>>
    /\ \A k \in 1..3 : r.course_marks[k] >= 0 /\ r.course_marks[k] <= 20
    /\ Len(r.course_marks) = 3
    /\ r.exam_mark >= 0 /\ r.exam_mark <= 100

\* C7: Add and Update reject, changing neither the collection nor the file,
\* every form whose name is blank, whose coursework marks are not all in
\* [0,20], whose exam mark is not in [0,100] or whose numbers are no integers;
\* so every record they write has a name, three coursework marks in [0,20]
\* and an exam mark in [0,100].
C7_ValidationRejects ==
    [][ /\ \A f \in FormInputs \ AcceptableForms :
              (window # "main" /\ (save_student(f) \/ save_changes(f)))
              => /\ students' = students /\ file' = file
                 /\ window' = window
                 /\ last'.outcome \in ValidationErrors
        /\ window # "main"
              => \A i \in 1..Len(students') :
                     (i > Len(students) \/ students'[i] # students[i])
                     => RecordValid(students'[i])
      ]_vars

C7_Witness ==
    /\ last = Handled("save_changes", "ExamRange")
    /\ Len(students) >= 2

\* The Update form opens on the first record with the code.
UpdateOpens(text) ==
    /\ window' = "update"
    /\ students[found_index'].code = CodeOf[text]
    /\ \A j \in 1..(found_index' - 1) : students[j].code # CodeOf[text]
    /\ at_open' = students /\ students' = students

\* The form stays on its record, and a save that changes the collection
\* replaces exactly the record at that position.
UpdateReplaces ==
    /\ (window = "update" /\ window' = "update")
          => found_index' = found_index /\ at_open' = at_open
    /\ \A f \in AcceptableForms :
          (window = "update" /\ students' # students /\ save_changes(f))
          => /\ students' = [students EXCEPT ![found_index] = RecordOf[f]]
             /\ Len(students') = Len(at_open)
             /\ \A i \in 1..Len(at_open) :
                    i # found_index => students'[i] = at_open[i]

UpdateMisses(outcome) ==
    /\ last'.outcome = outcome
    /\ students' = students /\ file' = file /\ window' = "main"

\* C8, as claimed: an Update of a code that no record has fails with NotFound
\* and changes nothing; otherwise exactly the first record with the code is
\* replaced at its position, the length and every other record unchanged.
C8_UpdateNotFound ==
    [][ /\ \A text \in IntegerTexts :
              (/\ window = "main" /\ last'.op = "update_student"
               /\ update_student(text))
              => IF CodePresent(students, CodeOf[text])
                 THEN UpdateOpens(text)
                 ELSE UpdateMisses("NotFound")
        /\ UpdateReplaces
      ]_vars

\* C8, amended: an Update of a code that no record has changes nothing and
\* fails with NotFound when the collection holds records, and with the "no
\* records available" message when it is empty; otherwise the form is opened
\* on the first record with the code, and when it is saved exactly the record
\* at that position is replaced: the length and every other record, content
\* and position, are as they were when the form was opened.
C8_UpdateFrame ==
    [][ /\ \A text \in IntegerTexts :
              (/\ window = "main" /\ last'.op = "update_student"
               /\ update_student(text))
              => IF CodePresent(students, CodeOf[text])
                 THEN UpdateOpens(text)
                 ELSE UpdateMisses(IF students = <<>> THEN "NoRecords"
                                   ELSE "NotFound")
        /\ UpdateReplaces
      ]_vars

C8_Witness ==
    /\ last = Handled("save_changes", "Success")
    /\ Len(students) >= 2
    /\ students[2].name = <<"a", ",", "b">>
    /\ io_failures > 0

\* C9: an Update with valid fields is rejected as a duplicate exactly when the
\* new code differs from the record's current code and another record has the
\* new code; an Update that keeps the record's code is never rejected as one.
C9_UpdateDuplicateExactly ==
    [][ \A f \in AcceptableForms :
            (window = "update" /\ save_changes(f))
            => ((last'.outcome = "DuplicateCode")
                  <=> /\ RecordOf[f].code # students[found_index].code
                      /\ CodePresent(Others(students, found_index),
                                     RecordOf[f].code))
      ]_vars

\* C10: after a successful Delete of a code, a lookup of the code finds no
\* record and the collection is exactly one shorter.
C10_DeleteThenLookup ==
    [][ \A text \in IntegerTexts :
            (window = "main" /\ delete_student(text, TRUE)
               /\ last'.outcome = "Success")
            => /\ view_individual(students', CodeOf[text]) = NotFound
               /\ Len(students') = Len(students) - 1
      ]_vars

\* A Delete that finds no record: its message, and nothing changed.
DeleteMisses(outcome) ==
    /\ last'.outcome = outcome
    /\ students' = students /\ file' = file /\ output' = output

\* A confirmed Delete of a code some record has: exactly the first record
\* with the code is gone, the others keep their content and order.
DeleteRemoves(code) ==
    /\ students' = WithoutFirst(students, code)
    /\ Len(students') = Len(students) - 1
    /\ last'.outcome \in {"Success", "SaveFailed"}

\* C11, as claimed: a Delete of a code that no record has fails with NotFound
\* and changes nothing; otherwise exactly the first record with the code is
\* removed and the remaining records keep their content and relative order.
C11_DeleteNotFound ==
    [][ \A text \in IntegerTexts :
            (/\ window = "main" /\ last'.op = "delete_student"
             /\ delete_student(text, TRUE))
            => IF CodePresent(students, CodeOf[text])
               THEN DeleteRemoves(CodeOf[text])
               ELSE DeleteMisses("NotFound")
      ]_vars

\* C11, amended: a Delete of a code that no record has changes nothing and
\* fails with NotFound when the collection holds records, and with the "no
\* records available" message when it is empty; a confirmed Delete of a code
\* some record has removes exactly the first record with the code, and the
\* remaining records keep their content and relative order.
C11_DeleteFrame ==
    [][ \A text \in IntegerTexts :
            (/\ window = "main" /\ last'.op = "delete_student"
             /\ delete_student(text, TRUE))
            => IF CodePresent(students, CodeOf[text])
               THEN DeleteRemoves(CodeOf[text])
               ELSE DeleteMisses(IF students = <<>> THEN "NoRecords"
                                 ELSE "NotFound")
      ]_vars

C11_Witness ==
    /\ last = Handled("delete_student", "Success")
    /\ Len(loaded) = 2 /\ loaded[1].code = loaded[2].code
    /\ students = <<loaded[2]>>

\* The percentage of a record, (sum of coursework marks + exam mark) / 160 *
\* 100, as a fraction.
Percentage(r) ==
    [num |-> (r.course_marks[1] + r.course_marks[2] + r.course_marks[3]
                + r.exam_mark) * 100,
     den |-> 160]

AtMost(p, q) == p.num * q.den <= q.num * p.den

NonDecreasing(studs) ==
    \A i \in 1..(Len(studs) - 1) :
        AtMost(Percentage(studs[i]), Percentage(studs[i + 1]))

NonIncreasing(studs) ==
    \A i \in 1..(Len(studs) - 1) :
        AtMost(Percentage(studs[i + 1]), Percentage(studs[i]))

Ascending == <<"1">>

Descending == <<"2">>

\* C12: after an ascending Sort the collection is a permutation of the one
\* before it that is non-decreasing in percentage, after a descending Sort a
\* permutation that is non-increasing in percentage.
C12_SortOrder ==
    [][ \A order \in {Ascending, Descending} :
            (/\ window = "main" /\ students # <<>>
             /\ last'.op = "sort_students" /\ sort_students(order))
            => /\ SameRecords(students', students)
               /\ order = Ascending => NonDecreasing(students')
               /\ order = Descending => NonIncreasing(students')
      ]_vars

C12_Witness ==
    /\ last = Handled("sort_students", "Success")
    /\ output.note = "descending"
    /\ Len(students) = 3
    /\ ~NonDecreasing(students)
    /\ ~NonIncreasing(loaded)

\* The records of a collection that have the percentage of r, in their order.
WithPercentageOf(studs, r) ==
    SelectSeq(studs, LAMBDA x : AtMost(Percentage(x), Percentage(r))
                                  /\ AtMost(Percentage(r), Percentage(x)))

\* C13: in an ascending and in a descending Sort, the records with equal
\* percentage keep the relative order they had before the Sort.
C13_SortStable ==
    [][ (window = "main" /\ students # <<>> /\ last'.op = "sort_students")
        => /\ \E order \in SortOrders : sort_students(order)
           /\ \A i \in 1..Len(students) :
                  WithPercentageOf(students', students[i])
                    = WithPercentageOf(students, students[i])
      ]_vars

C13_Witness ==
    /\ last = Handled("sort_students", "Success")
    /\ output.note = "descending"
    /\ Len(students) = 3
    /\ students[1].name = <<"a">> /\ students[2].name = <<"b">>
    /\ students[3].name = <<"c">>
    /\ loaded[1].name = <<"c">>

\* The total of a record: the sum of its coursework marks and its exam mark.
TotalOf(r) ==
    r.course_marks[1] + r.course_marks[2] + r.course_marks[3] + r.exam_mark

\* The position of the first record whose total no record exceeds, and of
\* the first record whose total no record is below.
FirstGreatest(studs) ==
    CHOOSE i \in 1..Len(studs) :
        /\ \A j \in 1..Len(studs) : TotalOf(studs[j]) <= TotalOf(studs[i])
        /\ \A j \in 1..(i - 1) : TotalOf(studs[j]) < TotalOf(studs[i])

FirstLeast(studs) ==
    CHOOSE i \in 1..Len(studs) :
        /\ \A j \in 1..Len(studs) : TotalOf(studs[j]) >= TotalOf(studs[i])
        /\ \A j \in 1..(i - 1) : TotalOf(studs[j]) > TotalOf(studs[i])

\* The text area shows exactly the record r.
ShowsOnly(out, r) ==
    /\ Len(out.shown) = 1
    /\ out.shown[1].name = r.name /\ out.shown[1].code = r.code
    /\ out.shown[1].exam_mark = r.exam_mark
    /\ out.shown[1].total_coursework
         = r.course_marks[1] + r.course_marks[2] + r.course_marks[3]

\* C14: on a collection that holds records, highest shows a record whose
\* total is the greatest and lowest a record whose total is the least, and
\* of the records with that total the one that comes first in the collection.
C14_ExtremumFirst ==
    [][ (window = "main" /\ students # <<>>)
        => /\ show_highest
                => ShowsOnly(output', students[FirstGreatest(students)])
           /\ show_lowest
                => ShowsOnly(output', students[FirstLeast(students)])
      ]_vars

C14_Witness ==
    /\ last = Handled("show_highest", "Shown")
    /\ Len(students) = 3
    /\ students[1].name = <<"c">> /\ students[2].name = <<"b">>
    /\ students[3].name = <<"a">>
    /\ output.shown[1].name = <<"b">>

\* The text area reports that there are no records, and shows no average.
ReportsEmpty(out) ==
    /\ out.view = "NoRecordsFound"
    /\ out.shown = <<>> /\ out.summary = <<>>

\* C15: the average is never a division by zero: when the collection holds
\* no record, at start-up or after a Delete removed the last record and
\* refreshed the display, view_all reports that there are no records in place
\* of an average, and every average shown is over at least one record.
C15_AverageGuard ==
    [][ /\ output'.view # "ZeroDivisionError"
        /\ (window = "main" /\ students = <<>> /\ view_all)
              => ReportsEmpty(output')
        /\ \A text \in IntegerTexts :
              (window = "main" /\ delete_student(text, TRUE)
                 /\ last'.outcome = "Success" /\ students' = <<>>)
              => ReportsEmpty(output')
        /\ output'.view = "AllRecords"
              => /\ output'.summary[1].number = Len(students')
                 /\ output'.summary[1].average_percentage[2] > 0
      ]_vars

C15_Witness ==
    /\ last = Handled("delete_student", "Success")
    /\ loaded # <<>>
    /\ students = <<>>
    /\ ReportsEmpty(output)

\* The fields of a line: the texts between its commas, the line's leading
\* and trailing blanks apart.
Commas(s) == {i \in 1..Len(s) : s[i] = ","}

CommaAt(s, k) ==
    IF k = 0 THEN 0
    ELSE IF k > Cardinality(Commas(s)) THEN Len(s) + 1
    ELSE CHOOSE i \in Commas(s) : Cardinality({j \in Commas(s) : j <= i}) = k

FieldOf(line, k) ==
    SubSeq(strip(line), CommaAt(strip(line), k - 1) + 1,
           CommaAt(strip(line), k) - 1)

\* A line with six fields whose code, marks and exam are integers.
WellFormed(line) ==
    /\ Cardinality(Commas(strip(line))) = 5
    /\ \A k \in {1, 3, 4, 5, 6} : IsInteger(FieldOf(line, k))

RecordOfLine(line) ==
    [code |-> int(FieldOf(line, 1)), name |-> FieldOf(line, 2),
     course_marks |-> <<int(FieldOf(line, 3)), int(FieldOf(line, 4)),
                        int(FieldOf(line, 5))>>,
     exam_mark |-> int(FieldOf(line, 6))]

RECURSIVE RecordsOfLines(_)
RecordsOfLines(lines) ==
    IF lines = <<>> THEN <<>>
    ELSE (IF WellFormed(Head(lines)) THEN <<RecordOfLine(Head(lines))>>
          ELSE <<>>) \o RecordsOfLines(Tail(lines))

\* C16: Load returns exactly the lines with six comma-separated fields whose
\* code, three marks and exam are integers, in the order of the file; every
\* other line is skipped and the lines after it are still loaded.
C16_LenientLoad ==
    last.outcome = "Loaded" => students = RecordsOfLines(file)

C16_Witness ==
    /\ last.outcome = "Loaded"
    /\ Len(file) = 2
    /\ Cardinality(Commas(file[1])) = 5 /\ ~WellFormed(file[1])
    /\ WellFormed(file[2])
    /\ Len(students) = 1

\* C17: a first line that is an integer is the count and gives no record, and
\* a first line that is a well-formed record line is loaded as the first
\* record.
C17_CountLine ==
    (last.outcome = "Loaded" /\ file # <<>>)
    => /\ IsInteger(file[1]) => students = RecordsOfLines(Tail(file))
       /\ WellFormed(file[1])
            => students # <<>> /\ students[1] = RecordOfLine(file[1])

C17_Witness ==
    /\ last.outcome = "Loaded"
    /\ Len(file) = 2
    /\ IsInteger(file[1])
    /\ WellFormed(file[2])
    /\ Len(students) = 1

\* The grade of a percentage given as a fraction.
GradeOf(p) ==
    IF AtMost([num |-> 70, den |-> 1], p) THEN "A"
    ELSE IF AtMost([num |-> 60, den |-> 1], p) THEN "B"
    ELSE IF AtMost([num |-> 50, den |-> 1], p) THEN "C"
    ELSE IF AtMost([num |-> 40, den |-> 1], p) THEN "D"
    ELSE "F"

\* The displayed percentage (eighths of a percent) is the fraction p.
ShowsPercentage(info, p) == info.percentage * p.den = 8 * p.num

\* C18: every record is shown with grade A when its percentage is at least
\* 70, B from 60, C from 50, D from 40 and F below, the percentage being
\* (sum of coursework marks + exam mark) / 160 * 100; the marks 18, 17, 19
\* with exam 82 give coursework 54, percentage 85 and grade A.
C18_GradeSteps ==
    output.view = "AllRecords"
    => \A i \in 1..Len(students) :
           /\ ShowsPercentage(output.shown[i], Percentage(students[i]))
           /\ output.shown[i].grade = GradeOf(Percentage(students[i]))
           /\ (students[i].course_marks = <<18, 17, 19>>
                 /\ students[i].exam_mark = 82)
              => /\ output.shown[i].total_coursework = 54
                 /\ TotalOf(students[i]) = 136
                 /\ output.shown[i].percentage = 85 * 8
                 /\ output.shown[i].grade = "A"

C18_Witness ==
    /\ output.view = "AllRecords"
    /\ TotalOf(students[1]) = 112
    /\ output.shown[1].grade = "A"

\* The marks of a record are within their limits.
MarksWithinLimits(r) ==
    /\ \A k \in 1..3 : r.course_marks[k] >= 0 /\ r.course_marks[k] <= 20
    /\ r.exam_mark >= 0 /\ r.exam_mark <= 100

\* C19: a record whose three coursework marks are in [0,20] and whose exam
\* mark is in [0,100] has a total in [0,160] and a percentage in [0,100].
C19_PercentageBounds ==
    output.view = "AllRecords"
    => \A i \in 1..Len(students) :
           MarksWithinLimits(students[i])
           => /\ output.shown[i].total_coursework + output.shown[i].exam_mark >= 0
              /\ output.shown[i].total_coursework + output.shown[i].exam_mark <= 160
              /\ output.shown[i].percentage >= 0
              /\ output.shown[i].percentage <= 100 * 8

C19_Witness ==
    /\ output.view = "AllRecords"
    /\ MarksWithinLimits(students[1])
    /\ TotalOf(students[1]) = 160
    /\ output.shown[1].percentage = 100 * 8

\* While a form is open the only handlers that run are its own Save button
\* and the closing of the form.
FormsSerialized ==
    /\ window = "add"
          => (close_window \/ \E f \in FormInputs : save_student(f))
    /\ window = "update"
          => (close_window \/ \E f \in FormInputs : save_changes(f))

\* The index of the open Update form is a position of the collection, and
\* every other position holds what it held when the form was opened.
IndexInPlace ==
    window' = "update"
    => /\ found_index' \in 1..Len(students')
       /\ Len(students') = Len(at_open')
       /\ \A i \in 1..Len(students') :
              i # found_index' => students'[i] = at_open'[i]

\* C20, as claimed: operations do not overlap: between the opening of a form
\* and its Save no other operation changes the collection, so the index the
\* Update form captured designates the record with the looked-up code
\* whenever Save Changes replaces it.
C20_IndexKeepsCode ==
    [][ /\ FormsSerialized
        /\ IndexInPlace
        /\ window' = "update"
              => students'[found_index'].code = at_open'[found_index'].code
      ]_vars

\* C20, amended: operations do not overlap: while a form is open only its
\* own Save and its closing run, so the index the Update form captured stays
\* a position of the collection whose other positions are unchanged; the
\* record at the index is the one looked up, or the one an earlier Save
\* Changes of the same form wrote when its save failed and the form stayed
\* open.
C20_Serialized ==
    [][ /\ FormsSerialized
        /\ IndexInPlace
        /\ (window' = "update"
              /\ students'[found_index'] # at_open'[found_index'])
              => /\ window = "update"
                 /\ \/ students'[found_index'] = students[found_index]
                    \/ /\ last'.outcome = "SaveFailed"
                       /\ \E f \in AcceptableForms :
                              students'[found_index'] = RecordOf[f]
      ]_vars

C20_Witness ==
    /\ window = "update"
    /\ last = Handled("save_changes", "SaveFailed")
    /\ students[found_index].code # at_open[found_index].code

\* C4: for every data file, loading it, saving and loading again yields the
\* collection of the first load: the same records in the same order.
C4_RoundTrip == last.outcome = "Reloaded" => students = loaded

C4_Witness ==
    /\ last.outcome = "Reloaded"
    /\ Len(students) = 2
    /\ students[1].name = <<" ", "b", " ">>
    /\ students[2].name = <<>>

\* C21: in every reachable state every record of the collection, whether it
\* came from Load, Add or Update, has a non-empty name, exactly three
\* coursework marks each in 0..20 and an exam mark in 0..100.
C21_RecordSchema == \A i \in 1..Len(students) : RecordValid(students[i])

\* The acceptable forms whose name holds a comma.
CommaForms == {f \in AcceptableForms : Commas(RecordOf[f].name) # {}}

\* The line written for the record at position i has more than six
\* comma-separated fields, and a Load of the written file returns neither the
\* record nor the collection that was written.
LostOnReload(r, i) ==
    /\ Cardinality(Commas(file'[i + 1])) + 1 > FieldCount
    /\ \A k \in 1..Len(load_data(file')) : load_data(file')[k] # r
    /\ load_data(file') # students'

\* C22: Add and Update accept a name that holds a comma; the line written
\* for such a record has more than six comma-separated fields, so a Load of
\* the written file does not return the record and the loaded collection
\* differs from the one that was written.
C22_CommaInName ==
    [][ \A f \in CommaForms :
          /\ (/\ window = "add" /\ last'.op = "save_student"
              /\ ~CodePresent(students, RecordOf[f].code)
              /\ save_student(f))
             => /\ students' = Append(students, RecordOf[f])
                /\ last'.outcome = "Success"
                      => LostOnReload(RecordOf[f], Len(students'))
          /\ (/\ window = "update" /\ last'.op = "save_changes"
              /\ ~CodePresent(Others(students, found_index), RecordOf[f].code)
              /\ save_changes(f))
             => /\ students' = [students EXCEPT ![found_index] = RecordOf[f]]
                /\ last'.outcome = "Success"
                      => LostOnReload(RecordOf[f], found_index)
      ]_vars

C22_Witness ==
    /\ last = Handled("save_changes", "Success")
    /\ \E i \in 1..Len(students) :
           /\ Commas(students[i].name) # {}
           /\ Cardinality(Commas(file[i + 1])) + 1 > FieldCount
    /\ Len(load_data(file)) < Len(students)

\* C23: on a non-empty collection Sort sorts ascending only when the dialog
\* returns exactly "1"; for every other result, a cancelled dialog and the
\* empty text included, it sorts descending; and for every result it goes on
\* to save, so that the file is the sorted collection when the save succeeds.
C23_SortDefault ==
    [][ \A order \in SortOrders :
            (/\ window = "main" /\ students # <<>>
             /\ last'.op = "sort_students" /\ sort_students(order))
            => /\ SameRecords(students', students)
               /\ IF order = Ascending THEN NonDecreasing(students')
                  ELSE NonIncreasing(students')
               /\ last'.outcome \in {"Success", "SaveFailed"}
               /\ last'.outcome = "Success"
                     => /\ mutated'
                        /\ Len(file') = Len(students') + 1
                        /\ \A i \in 1..Len(students') :
                               file'[i + 1] = RecordLine(students'[i])
      ]_vars

C23_Witness ==
    /\ last = Handled("sort_students", "Success")
    /\ output.note = "descending"
    /\ Len(students) > 1
    /\ ~NonDecreasing(students)
    /\ NonIncreasing(students)
    /\ \A i \in 1..Len(students) : file[i + 1] = RecordLine(students[i])

\* C24: in the quiz every question is answered and scored at most once: in
\* every reachable state score <= current_question <= total_questions, and
\* the final score shown does not exceed total_questions, however Submit and
\* Enter interleave with the queued display of the next question.
C24_ScoringBound ==
    /\ score <= current_question
    /\ current_question <= total_questions
    /\ result_labels # <<>> => result_labels[1] <= total_questions

\* The joke and the punchline on the labels are those of the current index,
\* and the index is a place of both lists whenever a joke has been displayed.
PunchlineOfShownJoke ==
    /\ Len(joke_list) = Len(punchline_list)
    /\ joke_list = <<>> => ~joke_displayed /\ punchline_label = <<>>
    /\ joke_list # <<>> => current_joke_index \in 0..(Len(joke_list) - 1)
    /\ punchline_label # <<>>
          => /\ joke_label = joke_list[current_joke_index + 1]
             /\ punchline_label = punchline_list[current_joke_index + 1]

C26_ImageStaysCleared == image_cleared => laugh_image_label = <<>>

====
